---- MODULE Spec2Model ----
(***************************************************************************)
(* Model of rocket-file-cache's Cache (src/src/cache.rs): the Entry Store  *)
(* (file_map), the Stats Table (file_stats_map), the Access Counter        *)
(* (access_count_map), and the operations get / try_insert / refresh /     *)
(* remove together with the Eviction Engine (make_room_for_new_file).      *)
(*                                                                         *)
(* The backing store changes freely between two Cache calls and never      *)
(* during one, so every call that looks at it draws the state f of its     *)
(* key's file from backing[key]: absent, a readable regular file of some   *)
(* size, or a regular file that cannot be opened.  A Content is            *)
(* represented by its size in bytes.                                       *)
(***************************************************************************)
EXTENDS Integers, Sequences, FiniteSets, TLC

\* ------------------------------------------------------------------ bounds
NumKeys == 3
MaxSize == 2
MaxCount == 2
SizeLimit == 3
NumRequests == 2

\* usize::MAX, the default max_file_size; it is only ever compared with sizes.
USIZE_MAX == 2147483647

Keys == 1..NumKeys
Sizes == 0..MaxSize
Requests == 1..NumRequests

\* lock and req belong to the callers that share the cache behind a Mutex, as
\* in the documented usage of get: the state of the Mutex, and each request
\* handler's position, key and result.
VARIABLES
    size_limit, min_file_size, max_file_size,
    backing, file_map, file_stats_map, access_count_map,
    last, lock, req

vars == <<size_limit, min_file_size, max_file_size,
          backing, file_map, file_stats_map, access_count_map, last, lock, req>>

config == <<size_limit, min_file_size, max_file_size, backing>>

callers == <<lock, req>>

\* ------------------------------------------------------------ map helpers
\* Mutant: an insert that drops every other key of the map.
Put_alone(m, k, v) == [x \in {k} |-> v]

Put(m, k, v) == [x \in (DOMAIN m) \cup {k} |-> IF x = k THEN v ELSE m[x]]

Del(m, k) == [x \in (DOMAIN m) \ {k} |-> m[x]]

EmptyMap == [x \in {} |-> 0]

RECURSIVE SumOver(_, _)
SumOver(m, S) ==
    IF S = {} THEN 0
    ELSE LET x == CHOOSE y \in S : TRUE IN m[x] + SumOver(m, S \ {x})

\* ----------------------------------------------------------- backing store
\* The state in which a call finds the file of its key: absent, a readable
\* regular file, or a regular file whose metadata can be queried but which
\* cannot be opened (no read permission).
FileStates ==
    {[kind |-> "absent", size |-> 0]}
        \cup [kind : {"file", "unreadable"}, size : Sizes]

\* A call that never looks at the backing store.
NoFile == [kind |-> "unseen", size |-> 0]

\* fs::metadata(path): Ok for anything that exists.
metadata_ok(f) == f.kind # "absent"

\* metadata.is_file()
metadata_is_file(f) == f.kind \in {"file", "unreadable"}

\* InMemoryFile::open(path): reads the whole file; its size is the number of
\* bytes read.
InMemoryFile_open_ok(f) == f.kind = "file"

InMemoryFile_open(f) == f.size

\* NamedFile::open(path)
NamedFile_open_ok(f) == f.kind = "file"

\* ------------------------------------------------------- priority function
RECURSIVE SqrtSearch(_, _, _)
SqrtSearch(n, lo, hi) ==
    IF lo >= hi THEN lo
    ELSE LET mid == (lo + hi + 1) \div 2
         IN  IF mid * mid - mid < n
             THEN SqrtSearch(n, mid, hi)
             ELSE SqrtSearch(n, lo, mid - 1)

\* round(sqrt(n)) for a natural n: the r with (r - 1/2)^2 <= n < (r + 1/2)^2.
RoundSqrt(n) ==
    IF n = 0 THEN 0 ELSE SqrtSearch(n, 1, IF n > 46340 THEN 46340 ELSE n)

\* round(sqrt(size) * access_count)
default_priority_function(access_count, size) ==
    RoundSqrt(size * access_count * access_count)

priority_function(access_count, size) ==
    default_priority_function(access_count, size)

\* ------------------------------------------------------------ Cache helpers
used_bytes_of(fm) == SumOver(fm, DOMAIN fm)

used_bytes == used_bytes_of(file_map)

contains_key(k) == k \in DOMAIN file_map

\* Mutant: unreadable metadata is taken as a size of 0.
get_file_size_or_zero(f) ==
    [ok |-> TRUE, size |-> IF metadata_ok(f) THEN f.size ELSE 0]

\* get_file_size_from_metadata: Ok(size) or Err(InvalidMetadata).
get_file_size_from_metadata(f) ==
    IF metadata_ok(f)
    THEN [ok |-> TRUE, size |-> f.size]
    ELSE [ok |-> FALSE, size |-> 0]

\* Mutant: the count is set on the first access only.
increment_access_count_once(acm, k) ==
    Put(acm, k, IF k \in DOMAIN acm THEN acm[k] ELSE 1)

\* Mutant: only a key that has an entry is counted.
increment_access_count_known(acm, k) ==
    IF k \in DOMAIN acm THEN Put(acm, k, acm[k] + 1) ELSE acm

\* entry(path).or_insert(0) += 1
increment_access_count(acm, k) ==
    Put(acm, k, (IF k \in DOMAIN acm THEN acm[k] ELSE 0) + 1)

\* Mutant: update_stats records the new size and keeps the old priority.
update_stats_keeps_priority(fm, fsm, acm, k, f) ==
    LET size == IF k \in DOMAIN fm THEN fm[k]
                ELSE get_file_size_from_metadata(f).size
        access_count == IF k \in DOMAIN acm THEN acm[k] ELSE 1
    IN  IF k \in DOMAIN fsm
        THEN Put(fsm, k, [fsm[k] EXCEPT !.size = size])
        ELSE Put(fsm, k, [size |-> size, access_count |-> access_count,
                          priority |-> priority_function(access_count, size)])

\* update_stats: the size comes from the cached entry, else from the metadata
\* (0 when that fails); access_count is written only when the record is created.
update_stats(fm, fsm, acm, k, f) ==
    LET size == IF k \in DOMAIN fm THEN fm[k]
                ELSE get_file_size_from_metadata(f).size
        access_count == IF k \in DOMAIN acm THEN acm[k] ELSE 1
        old == IF k \in DOMAIN fsm
               THEN fsm[k]
               ELSE [size |-> size, access_count |-> access_count, priority |-> 0]
    IN  Put(fsm, k, [size |-> size,
                     access_count |-> old.access_count,
                     priority |-> priority_function(old.access_count, size)])

\* Mutant: update_stats asks the backing store for the size on every call.
update_stats_io_always(fm, k) == {"metadata"}

\* Backing-store accesses made by update_stats.
update_stats_io(fm, k) == IF k \in DOMAIN fm THEN {} ELSE {"metadata"}

DefaultStats == [size |-> 0, access_count |-> 0, priority |-> 0]

StatsOf(fsm, k) == IF k \in DOMAIN fsm THEN fsm[k] ELSE DefaultStats

Perms(S) ==
    {p \in [1..Cardinality(S) -> S] :
        \A i, j \in 1..Cardinality(S) : i # j => p[i] # p[j]}

\* Mutant: sorted from lowest to highest priority.
sorted_priorities_ascending(fm, fsm) ==
    {[i \in 1..Cardinality(DOMAIN fm) |-> [key |-> p[i], stats |-> StatsOf(fsm, p[i])]] :
        p \in {q \in Perms(DOMAIN fm) :
                 \A i, j \in 1..Cardinality(DOMAIN fm) :
                    i < j => StatsOf(fsm, q[i]).priority <= StatsOf(fsm, q[j]).priority}}

\* Mutant: the list is left in the hash map's iteration order.
sorted_priorities_unsorted(fm, fsm) ==
    {[i \in 1..Cardinality(DOMAIN fm) |-> [key |-> p[i], stats |-> StatsOf(fsm, p[i])]] :
        p \in Perms(DOMAIN fm)}

\* Mutant: the list is sorted by size, the largest entry last.
sorted_priorities_by_size(fm, fsm) ==
    {[i \in 1..Cardinality(DOMAIN fm) |-> [key |-> p[i], stats |-> StatsOf(fsm, p[i])]] :
        p \in {q \in Perms(DOMAIN fm) :
                 \A i, j \in 1..Cardinality(DOMAIN fm) :
                    i < j => StatsOf(fsm, q[i]).size <= StatsOf(fsm, q[j]).size}}

\* sorted_priorities: the entries of file_map with their stats (a default
\* record when missing), sorted from highest to lowest priority.  The hash
\* map's iteration order is arbitrary and the sort is stable, so entries of
\* equal priority come in any order: the set of all possible results.
sorted_priorities(fm, fsm) ==
    {[i \in 1..Cardinality(DOMAIN fm) |-> [key |-> p[i], stats |-> StatsOf(fsm, p[i])]] :
        p \in {q \in Perms(DOMAIN fm) :
                 \A i, j \in 1..Cardinality(DOMAIN fm) :
                    i < j => StatsOf(fsm, q[i]).priority >= StatsOf(fsm, q[j]).priority}}

\* Mutant: the loop goes on until more than the required space is freed.
RECURSIVE select_victims_strict(_, _, _, _, _, _)
select_victims_strict(stats, possibly_freed_space, priority_score_to_free, file_paths_to_remove, required_space, new_file_priority) ==
    IF possibly_freed_space > required_space
    THEN [res |-> "Ok", paths |-> file_paths_to_remove]
    ELSE IF stats = <<>>
    THEN [res |-> "NoMoreFilesToRemove", paths |-> file_paths_to_remove]
    ELSE LET lowest == stats[Len(stats)]
             freed  == possibly_freed_space + lowest.stats.size
             score  == priority_score_to_free + lowest.stats.priority
             paths  == Append(file_paths_to_remove, lowest.key)
         IN  IF score > new_file_priority
             THEN [res |-> "NewPriorityIsNotHighEnough", paths |-> paths]
             ELSE select_victims_strict(SubSeq(stats, 1, Len(stats) - 1), freed, score,
                                        paths, required_space, new_file_priority)

\* Mutant: the loop stops one byte short of the required space.
RECURSIVE select_victims_one_short(_, _, _, _, _, _)
select_victims_one_short(stats, possibly_freed_space, priority_score_to_free, file_paths_to_remove, required_space, new_file_priority) ==
    IF possibly_freed_space + 1 >= required_space
    THEN [res |-> "Ok", paths |-> file_paths_to_remove]
    ELSE IF stats = <<>>
    THEN [res |-> "NoMoreFilesToRemove", paths |-> file_paths_to_remove]
    ELSE LET lowest == stats[Len(stats)]
             freed  == possibly_freed_space + lowest.stats.size
             score  == priority_score_to_free + lowest.stats.priority
             paths  == Append(file_paths_to_remove, lowest.key)
         IN  IF score > new_file_priority
             THEN [res |-> "NewPriorityIsNotHighEnough", paths |-> paths]
             ELSE select_victims_one_short(SubSeq(stats, 1, Len(stats) - 1), freed, score,
                                           paths, required_space, new_file_priority)

\* The while loop of make_room_for_new_file (lines 429-448).
RECURSIVE select_victims(_, _, _, _, _, _)
select_victims(stats, possibly_freed_space, priority_score_to_free, file_paths_to_remove, required_space, new_file_priority) ==
    IF possibly_freed_space >= required_space
    THEN [res |-> "Ok", paths |-> file_paths_to_remove]
    ELSE IF stats = <<>>
    THEN [res |-> "NoMoreFilesToRemove", paths |-> file_paths_to_remove]
    ELSE LET lowest == stats[Len(stats)]
             freed  == possibly_freed_space + lowest.stats.size
             score  == priority_score_to_free + lowest.stats.priority
             paths  == Append(file_paths_to_remove, lowest.key)
         IN  IF score > new_file_priority
             THEN [res |-> "NewPriorityIsNotHighEnough", paths |-> paths]
             ELSE select_victims(SubSeq(stats, 1, Len(stats) - 1), freed, score,
                                 paths, required_space, new_file_priority)

\* Mutant: the commit takes the victims out of file_map and leaves their stats.
RECURSIVE commit_removal_entries_only(_, _, _, _)
commit_removal_entries_only(fm, fsm, paths, i) ==
    IF i > Len(paths)
    THEN [res |-> "Ok", fm |-> fm, fsm |-> fsm, removed |-> paths]
    ELSE IF paths[i] \notin DOMAIN fm
    THEN [res |-> "panic", fm |-> fm, fsm |-> fsm, removed |-> SubSeq(paths, 1, i - 1)]
    ELSE commit_removal_entries_only(Del(fm, paths[i]), fsm, paths, i + 1)

\* The removal loop of make_room_for_new_file (lines 455-466): both unwraps;
\* the one on file_stats_map panics when the victim has no stats record.
RECURSIVE commit_removal(_, _, _, _)
commit_removal(fm, fsm, paths, i) ==
    IF i > Len(paths)
    THEN [res |-> "Ok", fm |-> fm, fsm |-> fsm, removed |-> paths]
    ELSE IF paths[i] \notin DOMAIN fm
    THEN [res |-> "panic", fm |-> fm, fsm |-> fsm, removed |-> SubSeq(paths, 1, i - 1)]
    ELSE IF paths[i] \notin DOMAIN fsm
    THEN [res |-> "panic", fm |-> Del(fm, paths[i]), fsm |-> fsm,
          removed |-> SubSeq(paths, 1, i - 1)]
    ELSE commit_removal(Del(fm, paths[i]), Del(fsm, paths[i]), paths, i + 1)

\* Mutant: the victims are removed as they are selected, before the priority
\* check has passed for the whole set.
make_room_eager(fm, fsm, stats, required_space, new_file_priority) ==
    LET sel == select_victims(stats, 0, 0, <<>>, required_space, new_file_priority)
        c == commit_removal(fm, fsm, sel.paths, 1)
    IN  IF sel.res = "NoMoreFilesToRemove"
        THEN [res |-> sel.res, fm |-> fm, fsm |-> fsm, removed |-> <<>>]
        ELSE [res |-> IF c.res = "panic" THEN "panic" ELSE sel.res,
              fm |-> c.fm, fsm |-> c.fsm, removed |-> c.removed]

\* Mutant: running out of files to remove counts as having made room.
make_room_exhausted_ok(fm, fsm, stats, required_space, new_file_priority) ==
    LET sel == select_victims(stats, 0, 0, <<>>, required_space, new_file_priority)
    IN  IF sel.res \in {"Ok", "NoMoreFilesToRemove"}
        THEN commit_removal(fm, fsm, sel.paths, 1)
        ELSE [res |-> sel.res, fm |-> fm, fsm |-> fsm, removed |-> <<>>]

make_room_for_new_file(fm, fsm, stats, required_space, new_file_priority) ==
    LET sel == select_victims(stats, 0, 0, <<>>, required_space, new_file_priority)
    IN  IF sel.res = "Ok"
        THEN commit_removal(fm, fsm, sel.paths, 1)
        ELSE [res |-> sel.res, fm |-> fm, fsm |-> fsm, removed |-> <<>>]

\* Mutant: only the first removed file goes back.
reinsert_first_only(fm, old_fm, removed, i) ==
    IF Len(removed) = 0 THEN fm ELSE Put(fm, removed[1], old_fm[removed[1]])

\* The rollback of try_insert (lines 388-390): the removed files go back into
\* file_map.
RECURSIVE reinsert_removed(_, _, _, _)
reinsert_removed(fm, old_fm, removed, i) ==
    IF i > Len(removed) THEN fm
    ELSE reinsert_removed(Put(fm, removed[i], old_fm[removed[i]]), old_fm, removed, i + 1)

\* ------------------------------------------------------------- operations
\* What an operation reports: the operation, its key and the file it found,
\* the handle returned (res, with the size of the content it refers to; for
\* a refresh, the size of the content it replaced),
\* try_insert's error, the branch of try_insert taken,
\* make_room_for_new_file's result with the sorted list it worked on (order)
\* and the files it removed, refresh's return value, and the backing-store
\* accesses made.
NoOp ==
    [op |-> "none", key |-> 0, file |-> NoFile, res |-> "none", size |-> 0,
     err |-> "none", branch |-> "none", mr |-> "none", order |-> <<>>,
     removed |-> <<>>, ret |-> FALSE, io |-> {}]

KeysOf(stats) == [i \in 1..Len(stats) |-> stats[i].key]

\* Mutant: only the upper size constraint is tested.
exceeds_max_file_size(size) == size > max_file_size

\* The size constraints test of try_insert (line 335).
violates_size_constraints(size) == size > max_file_size \/ size < min_file_size

\* Mutant: the candidate's priority is taken at its first access.
new_file_priority_first_access(acm, k, size) == priority_function(1, size)

\* The candidate's priority (lines 367-368): recomputed from its access count.
new_file_priority_of(acm, k, size) ==
    priority_function(IF k \in DOMAIN acm THEN acm[k] ELSE 1, size)

\* try_insert (lines 321-407) on a file found in state f, for one sorted list
\* the Eviction Engine may get.
try_insert_with(k, f, stats) ==
    LET meta == get_file_size_from_metadata(f)
        size == meta.size
        acm1 == increment_access_count(access_count_map, k)
        fsm1 == update_stats(file_map, file_stats_map, acm1, k, f)
        io1  == {"metadata"} \cup update_stats_io(file_map, k)
        required_space_for_new_file == (used_bytes + size) - size_limit
        base == [NoOp EXCEPT !.op = "get", !.key = k, !.file = f]
        passthrough(fm, fsm, b, mr, order) ==
            [fm |-> fm, fsm |-> fsm, acm |-> acm1,
             out |-> [base EXCEPT !.branch = b, !.mr = mr, !.order = order,
                         !.io = io1 \cup {"open"},
                         !.res = IF NamedFile_open_ok(f) THEN "Passthrough" ELSE "None",
                         !.size = IF NamedFile_open_ok(f) THEN f.size ELSE 0,
                         !.err = IF NamedFile_open_ok(f) THEN "none" ELSE "InvalidPath"]]
    IN  IF ~meta.ok
        THEN [fm |-> file_map, fsm |-> file_stats_map, acm |-> access_count_map,
              out |-> [base EXCEPT !.res = "None", !.err = "InvalidMetadata",
                                   !.branch = "metadata", !.io = {"metadata"}]]
        ELSE IF violates_size_constraints(size)
        THEN passthrough(file_map, fsm1, "size_policy", "none", <<>>)
        ELSE IF required_space_for_new_file < 0 /\ size < size_limit
        THEN IF InMemoryFile_open_ok(f)
             THEN [fm |-> Put(file_map, k, InMemoryFile_open(f)), fsm |-> fsm1, acm |-> acm1,
                   out |-> [base EXCEPT !.branch = "direct_fit", !.res = "Cached",
                               !.size = InMemoryFile_open(f), !.io = io1 \cup {"read"}]]
             ELSE [fm |-> file_map, fsm |-> fsm1, acm |-> acm1,
                   out |-> [base EXCEPT !.branch = "direct_fit", !.res = "None",
                               !.err = "InvalidPath", !.io = io1 \cup {"read"}]]
        ELSE LET new_file_priority == new_file_priority_of(acm1, k, size)
                 room == make_room_for_new_file(file_map, fsm1, stats,
                             required_space_for_new_file, new_file_priority)
             IN  IF room.res = "panic"
                 THEN [fm |-> room.fm, fsm |-> room.fsm, acm |-> acm1,
                       out |-> [base EXCEPT !.branch = "evict", !.mr = "panic",
                                   !.order = KeysOf(stats), !.removed = room.removed,
                                   !.res = "panic", !.io = io1]]
                 ELSE IF room.res = "Ok"
                 THEN IF InMemoryFile_open_ok(f)
                      THEN [fm |-> Put(room.fm, k, InMemoryFile_open(f)),
                            fsm |-> room.fsm, acm |-> acm1,
                            out |-> [base EXCEPT !.branch = "evict", !.mr = "Ok",
                                        !.order = KeysOf(stats), !.removed = room.removed,
                                        !.res = "Cached", !.size = InMemoryFile_open(f),
                                        !.io = io1 \cup {"read"}]]
                      ELSE [fm |-> reinsert_removed(room.fm, file_map, room.removed, 1),
                            fsm |-> room.fsm, acm |-> acm1,
                            out |-> [base EXCEPT !.branch = "evict", !.mr = "Ok",
                                        !.order = KeysOf(stats), !.removed = room.removed,
                                        !.res = "None", !.err = "InvalidPath",
                                        !.io = io1 \cup {"read"}]]
                 ELSE passthrough(room.fm, room.fsm, "evict", room.res, KeysOf(stats))

\* try_insert: one outcome per file state and per order sorted_priorities
\* can return.
try_insert(k) ==
    {try_insert_with(k, f, stats) :
        <<f, stats>> \in
            UNION {{f} \X sorted_priorities(file_map,
                              update_stats(file_map, file_stats_map,
                                  increment_access_count(access_count_map, k), k, f)) :
                   f \in backing[k]}}

\* get_from_cache
get_from_cache(k) == k \in DOMAIN file_map

\* get (lines 147-161): a hit, or try_insert(..).ok().
get(k) ==
    IF get_from_cache(k)
    THEN LET acm1 == increment_access_count(access_count_map, k)
         IN  {[fm |-> file_map,
               fsm |-> update_stats(file_map, file_stats_map, acm1, k, NoFile),
               acm |-> acm1,
               out |-> [NoOp EXCEPT !.op = "get", !.key = k, !.branch = "hit",
                           !.res = "Cached", !.size = file_map[k],
                           !.io = update_stats_io(file_map, k)]]}
    ELSE try_insert(k)

CountIn(acm, k) == IF k \in DOMAIN acm THEN acm[k] ELSE 0

Count(k) == CountIn(access_count_map, k)

\* A panic ends the use of the cache: the caller's lock is poisoned.
Running == last.res # "panic"

\* get(k) by a caller that stops asking for a key after cap requests.
GetUpTo(k, cap) ==
    /\ Running
    /\ Count(k) < cap
    /\ \E r \in get(k) :
         /\ file_map' = r.fm
         /\ file_stats_map' = r.fsm
         /\ access_count_map' = r.acm
         /\ last' = r.out
    /\ UNCHANGED config

Get(k) == GetUpTo(k, MaxCount) /\ UNCHANGED callers

\* refresh (lines 175-209) on a file found in state f.
refresh(k, f) ==
    LET is_ok_to_refresh ==
            /\ k \in DOMAIN file_map
            /\ metadata_ok(f)
            /\ metadata_is_file(f)
            /\ k \in DOMAIN file_stats_map
        replaced == is_ok_to_refresh /\ InMemoryFile_open_ok(f)
        fm1 == IF replaced THEN Put(Del(file_map, k), k, InMemoryFile_open(f))
               ELSE file_map
    IN  [fm |-> fm1,
         fsm |-> IF replaced
                 THEN update_stats(fm1, file_stats_map, access_count_map, k, f)
                 ELSE file_stats_map,
         out |-> [NoOp EXCEPT !.op = "refresh", !.key = k, !.file = f,
                     !.ret = is_ok_to_refresh,
                     !.size = IF replaced THEN file_map[k] ELSE 0,
                     !.branch = IF replaced THEN "replaced" ELSE "kept",
                     !.io = {"metadata"}
                               \cup (IF is_ok_to_refresh THEN {"read"} ELSE {})]]

Refresh(k) ==
    /\ Running
    /\ IF k \in DOMAIN file_map
       THEN \E f \in backing[k] :
              /\ file_map' = refresh(k, f).fm
              /\ file_stats_map' = refresh(k, f).fsm
              /\ last' = refresh(k, f).out
       ELSE /\ last' = [NoOp EXCEPT !.op = "refresh", !.key = k, !.branch = "kept"]
            /\ UNCHANGED <<file_map, file_stats_map>>
    /\ UNCHANGED <<config, access_count_map, callers>>

\* Mutant: remove as its doc comment describes it, keeping the access count.
Remove_keeps_count(k) ==
    /\ Running
    /\ file_stats_map' = Del(file_stats_map, k)
    /\ file_map' = Del(file_map, k)
    /\ last' = [NoOp EXCEPT !.op = "remove", !.key = k]
    /\ UNCHANGED <<config, access_count_map, callers>>

\* Mutant: remove drops the entry and the access count and leaves the stats.
Remove_keeps_stats(k) ==
    /\ Running
    /\ file_map' = Del(file_map, k)
    /\ access_count_map' = Put(access_count_map, k, 0)
    /\ last' = [NoOp EXCEPT !.op = "remove", !.key = k]
    /\ UNCHANGED <<config, file_stats_map, callers>>

\* remove (lines 231-238)
Remove(k) ==
    /\ Running
    /\ file_stats_map' = Del(file_stats_map, k)
    /\ file_map' = Del(file_map, k)
    /\ access_count_map' = Put(access_count_map, k, 0)
    /\ last' = [NoOp EXCEPT !.op = "remove", !.key = k]
    /\ UNCHANGED <<config, callers>>

\* A request handler that is not running; no handler holds the Mutex.
IdleRequest == [pc |-> "idle", key |-> 0, file |-> NoFile, res |-> "none", via |-> "none"]

NoCallers ==
    /\ lock = "free"
    /\ req = [r \in Requests |-> IdleRequest]

\* Cache::new(size_limit) (lines 91-101), over a backing store in which every
\* file can be found in any state.
Init ==
    /\ size_limit = SizeLimit
    /\ min_file_size = 0
    /\ max_file_size = USIZE_MAX
    /\ backing = [k \in Keys |-> FileStates]
    /\ file_map = EmptyMap
    /\ file_stats_map = EmptyMap
    /\ access_count_map = EmptyMap
    /\ last = NoOp
    /\ NoCallers

Next ==
    \/ \E k \in Keys : Get(k)
    \/ \E k \in Keys : Refresh(k)
    \/ \E k \in Keys : Remove(k)

Spec == Init /\ [][Next]_vars

\* ------------------------------------------------------ other configurations

\* A cache built by Cache::new(0), as in the test cache_miss_10mb (line 648).
InitZero ==
    /\ size_limit = 0
    /\ min_file_size = 0
    /\ max_file_size = USIZE_MAX
    /\ backing = [k \in Keys |-> FileStates]
    /\ file_map = EmptyMap
    /\ file_stats_map = EmptyMap
    /\ access_count_map = EmptyMap
    /\ last = NoOp
    /\ NoCallers

SpecZero == InitZero /\ [][Next]_vars

\* A cache smaller than some of the files, as in the test
\* file_exceeds_size_limit (lines 834-847).
TightLimit == 1

InitTight ==
    /\ size_limit = TightLimit
    /\ min_file_size = 0
    /\ max_file_size = USIZE_MAX
    /\ backing = [k \in Keys |-> FileStates]
    /\ file_map = EmptyMap
    /\ file_stats_map = EmptyMap
    /\ access_count_map = EmptyMap
    /\ last = NoOp
    /\ NoCallers

SpecTight == InitTight /\ [][Next]_vars

\* A cache whose size constraints (the fields min_file_size and max_file_size,
\* lines 68-69) admit files of one size only.
MinFileSize == 1
MaxFileSize == 1

InitConstrained ==
    /\ size_limit = SizeLimit
    /\ min_file_size = MinFileSize
    /\ max_file_size = MaxFileSize
    /\ backing = [k \in Keys |-> FileStates]
    /\ file_map = EmptyMap
    /\ file_stats_map = EmptyMap
    /\ access_count_map = EmptyMap
    /\ last = NoOp
    /\ NoCallers

SpecConstrained == InitConstrained /\ [][Next]_vars

\* The files and the cache of the test file_replaces_other_file (lines
\* 850-881): key 1 is a 5 MB file, key 2 a 1 MB file, any other key a path
\* with no file; nothing changes on disk.
MEG1 == 1024 * 1024
MEG5 == MEG1 * 5
ReplaceLimit == 5500000
MaxRequests == 4

ReplaceFiles ==
    [k \in Keys |-> IF k = 1 THEN {[kind |-> "file", size |-> MEG5]}
                    ELSE IF k = 2 THEN {[kind |-> "file", size |-> MEG1]}
                    ELSE {[kind |-> "absent", size |-> 0]}]

InitReplace ==
    /\ size_limit = ReplaceLimit
    /\ min_file_size = 0
    /\ max_file_size = USIZE_MAX
    /\ backing = ReplaceFiles
    /\ file_map = EmptyMap
    /\ file_stats_map = EmptyMap
    /\ access_count_map = EmptyMap
    /\ last = NoOp
    /\ NoCallers

GetRepeatedly(k) == GetUpTo(k, MaxRequests) /\ UNCHANGED callers

NextReplace ==
    \/ \E k \in Keys : GetRepeatedly(k)
    \/ \E k \in Keys : Refresh(k)
    \/ \E k \in Keys : Remove(k)

SpecReplace == InitReplace /\ [][NextReplace]_vars

\* -------------------------------------------------------- concurrent callers

\* The request handler of get's doc example (lines 129-144), run by several
\* threads over one Mutex<Cache>.  Keys 1 and 2 are files of one byte; the
\* two-byte file of any other key comes and goes and is at times unreadable.
SharedFiles ==
    [k \in Keys |-> IF k \in {1, 2}
                    THEN {[kind |-> "file", size |-> 1]}
                    ELSE {[kind |-> "absent", size |-> 0],
                          [kind |-> "unreadable", size |-> 2],
                          [kind |-> "file", size |-> 2]}]

InitShared ==
    /\ size_limit = SizeLimit
    /\ min_file_size = 0
    /\ max_file_size = USIZE_MAX
    /\ backing = SharedFiles
    /\ file_map = EmptyMap
    /\ file_stats_map = EmptyMap
    /\ access_count_map = EmptyMap
    /\ last = NoOp
    /\ NoCallers

\* Mutant: try_lock hands out the cache whatever the state of the Mutex.
TryLock_always(r, k) ==
    /\ req[r].pc = "idle"
    /\ Count(k) < MaxCount
    /\ lock' = "held"
    /\ req' = [req EXCEPT ![r] = [IdleRequest EXCEPT !.pc = "locked", !.key = k]]
    /\ UNCHANGED <<config, file_map, file_stats_map, access_count_map, last>>

\* cache.try_lock() (line 134) by the handler r of a request for key k: the
\* guard when the Mutex is free, an error when another thread holds it or a
\* thread panicked while holding it.
TryLock(r, k) ==
    /\ req[r].pc = "idle"
    /\ Count(k) < MaxCount
    /\ IF lock = "free"
       THEN /\ lock' = "held"
            /\ req' = [req EXCEPT ![r] = [IdleRequest EXCEPT !.pc = "locked", !.key = k]]
       ELSE /\ lock' = lock
            /\ req' = [req EXCEPT ![r] = [IdleRequest EXCEPT !.pc = "fallback", !.key = k]]
    /\ UNCHANGED <<config, file_map, file_stats_map, access_count_map, last>>

\* The Ok arm (line 135): cache.get under the guard, which is dropped when
\* get returns; a panic inside get poisons the Mutex and ends the thread.
LockedGet(r) ==
    /\ req[r].pc = "locked"
    /\ GetUpTo(req[r].key, MaxCount)
    /\ lock' = IF last'.res = "panic" THEN "poisoned" ELSE "free"
    /\ req' = [req EXCEPT ![r] =
                 [@ EXCEPT !.pc = IF last'.res = "panic" THEN "panicked" ELSE "idle",
                           !.res = last'.res, !.via = "cache"]]

\* The Err arm (lines 136-141): NamedFile::open(pathbuf).ok().
Fallback(r) ==
    /\ req[r].pc = "fallback"
    /\ \E f \in backing[req[r].key] :
         req' = [req EXCEPT ![r] =
                   [@ EXCEPT !.pc = "idle", !.file = f, !.via = "fs",
                             !.res = IF NamedFile_open_ok(f) THEN "Passthrough" ELSE "None"]]
    /\ UNCHANGED <<config, file_map, file_stats_map, access_count_map, last, lock>>

NextShared ==
    \/ \E r \in Requests, k \in Keys : TryLock(r, k)
    \/ \E r \in Requests : LockedGet(r)
    \/ \E r \in Requests : Fallback(r)

SpecShared == InitShared /\ [][NextShared]_vars

\* ---------------------------------------------------------- repeated request

\* A caller that, after any use of the cache, requests one key again and
\* again while nothing else happens: handler 1 is that caller, its key's
\* file is readable, not empty, within the size constraints and no larger
\* than the cache, and stays as it is.  The caller makes up to RepeatCap
\* requests of the key.
RepeatCap == 7

Repeating == req[1].pc = "repeat"

Setup == ~Repeating /\ Next

StartRepeating(k) ==
    /\ ~Repeating
    /\ Running
    /\ \E f \in backing[k] :
         /\ f.kind = "file"
         /\ f.size > 0 /\ f.size <= size_limit
         /\ f.size >= min_file_size /\ f.size <= max_file_size
         /\ req' = [req EXCEPT ![1] = [IdleRequest EXCEPT !.pc = "repeat", !.key = k, !.file = f]]
    /\ UNCHANGED <<config, file_map, file_stats_map, access_count_map, last, lock>>

RepeatGet ==
    /\ Repeating
    /\ Running
    /\ Count(req[1].key) < RepeatCap
    /\ \E r \in get(req[1].key) :
         /\ r.out.branch = "hit" \/ r.out.file = req[1].file
         /\ file_map' = r.fm
         /\ file_stats_map' = r.fsm
         /\ access_count_map' = r.acm
         /\ last' = r.out
    /\ UNCHANGED <<config, callers>>

NextRepeat ==
    \/ Setup
    \/ \E k \in Keys : StartRepeating(k)
    \/ RepeatGet

\* The caller keeps requesting: a request that can be made is made.
SpecRepeat == InitShared /\ [][NextRepeat]_vars /\ WF_vars(RepeatGet)

\* ------------------------------------------------------------------ claims
\* The priority the Eviction Engine works with: the one recorded in the
\* Stats Table, 0 for an entry that has no record.
RecordedPriority(k) == StatsOf(file_stats_map, k).priority

\* The operation has run to its end (it did not panic).
Completed == last.res # "panic"

\* C1: after every completed operation used_bytes() <= size_limit.
C1_SizeInvariant == Completed => used_bytes <= size_limit

\* C2: a try_insert whose eviction succeeded and whose content read failed
\* (it returns InvalidPath) leaves file_map and used_bytes() as they were.
C2_RollbackRestoresStore ==
    [][(last'.op = "get" /\ last'.mr = "Ok" /\ last'.err = "InvalidPath")
          => (file_map' = file_map /\ used_bytes_of(file_map') = used_bytes)]_vars

C2_Witness ==
    /\ last.op = "get" /\ last.mr = "Ok" /\ last.err = "InvalidPath"
    /\ Len(last.removed) = 2

\* C3.  The victims are taken from the tail of the sorted list: the sums of
\* the recorded priorities and sizes of its last n entries.
RECURSIVE TailPriority(_, _, _)
TailPriority(order, fsm, n) ==
    IF n = 0 THEN 0
    ELSE StatsOf(fsm, order[Len(order) - n + 1]).priority + TailPriority(order, fsm, n - 1)

RECURSIVE TailSize(_, _, _)
TailSize(order, fsm, n) ==
    IF n = 0 THEN 0
    ELSE StatsOf(fsm, order[Len(order) - n + 1]).size + TailSize(order, fsm, n - 1)

\* The step is a get of an uncached key whose admission needs eviction.
NeedsEviction ==
    /\ last'.op = "get"
    /\ last'.key \notin DOMAIN file_map
    /\ last'.file.kind # "absent"
    /\ last'.file.size >= min_file_size /\ last'.file.size <= max_file_size
    /\ ~(used_bytes + last'.file.size - size_limit < 0 /\ last'.file.size < size_limit)

\* Some prefix of the victims outweighs the candidate before enough space is
\* accounted for.
PrefixOutweighsCandidate ==
    \E n \in 1..Len(last'.order) :
        /\ TailPriority(last'.order, file_stats_map, n)
              > priority_function(Count(last'.key) + 1, last'.file.size)
        /\ TailSize(last'.order, file_stats_map, n - 1)
              < used_bytes + last'.file.size - size_limit

StoreUntouched ==
    /\ file_map' = file_map
    /\ \A x \in DOMAIN file_stats_map \ {last'.key} :
          x \in DOMAIN file_stats_map' /\ file_stats_map'[x] = file_stats_map[x]

\* C3 as stated: on an abort nothing is removed and the candidate is served
\* via passthrough.
C3_AbortAlwaysPassthrough ==
    [][(NeedsEviction /\ PrefixOutweighsCandidate)
          => (StoreUntouched /\ last'.res = "Passthrough")]_vars

\* C3 amended: on an abort nothing is removed from the Entry Store or the
\* Stats Table, and the candidate is served via passthrough when its file can
\* be opened; when it cannot, try_insert fails with InvalidPath (get: None).
C3_AbortLeavesStore ==
    [][(NeedsEviction /\ PrefixOutweighsCandidate)
          => /\ StoreUntouched
             /\ last'.mr = "NewPriorityIsNotHighEnough"
             /\ IF last'.file.kind = "file"
                THEN last'.res = "Passthrough"
                ELSE last'.res = "None" /\ last'.err = "InvalidPath"]_vars

C3_Witness ==
    /\ last.op = "get" /\ last.mr = "NewPriorityIsNotHighEnough"
    /\ last.res = "Passthrough"
    /\ Len(last.order) >= 2
    /\ DOMAIN file_map = {last.order[i] : i \in 1..Len(last.order)}

\* C4.  The step is an admission that evicted entries.
AdmissionEvicted ==
    last'.op = "get" /\ last'.res = "Cached" /\ Len(last'.removed) > 0

Remaining == DOMAIN file_map' \ {last'.key}

CandidatePriority == priority_function(CountIn(access_count_map', last'.key), last'.file.size)

\* C4 as stated: every evicted entry has a strictly lower priority than every
\* remaining entry and than the admitted candidate.
C4_EvictedStrictlyLower ==
    [][AdmissionEvicted =>
          \A i \in 1..Len(last'.removed) :
             /\ \A r \in Remaining :
                   RecordedPriority(last'.removed[i]) < RecordedPriority(r)
             /\ RecordedPriority(last'.removed[i]) < CandidatePriority]_vars

\* C4 amended: every evicted entry has a recorded priority lower than or equal
\* to that of every remaining entry and to the admitted candidate's priority.
C4_EvictedNotHigher ==
    [][AdmissionEvicted =>
          \A i \in 1..Len(last'.removed) :
             /\ \A r \in Remaining :
                   RecordedPriority(last'.removed[i]) <= RecordedPriority(r)
             /\ RecordedPriority(last'.removed[i]) <= CandidatePriority]_vars

C4_Witness ==
    /\ last.op = "get" /\ last.res = "Cached" /\ Len(last.removed) > 0
    /\ DOMAIN file_map \ {last.key} # {}
    /\ \E r \in DOMAIN file_map \ {last.key} : RecordedPriority(r) > 0

C6_HitPath ==
    [][(last'.op = "get" /\ last'.key \in DOMAIN file_map)
          => /\ last'.res = "Cached"
             /\ last'.size = file_map[last'.key]
             /\ last'.io = {}
             /\ file_map' = file_map
             /\ CountIn(access_count_map', last'.key) = Count(last'.key) + 1]_vars

C6_Witness ==
    /\ last.op = "get" /\ last.branch = "hit" /\ last.res = "Cached"
    /\ Count(last.key) = 2

\* C7: a get of a key whose file the backing store can serve (metadata and
\* open succeed) completes and returns a handle, never None.
C7_Availability ==
    (last.op = "get" /\ last.file.kind = "file")
        => last.res \in {"Cached", "Passthrough"}

\* C8 as stated: every get raises the key's access count by exactly 1,
\* whatever the outcome of the lookup.
C8_EveryGetCounts ==
    [][last'.op = "get"
          => CountIn(access_count_map', last'.key) = Count(last'.key) + 1]_vars

\* C8 amended: a get raises the key's access count by exactly 1 when the key
\* is cached or its metadata can be read, and leaves the Access Counter
\* unchanged when the key is not cached and its metadata cannot be read.
C8_GetCountsExistingFiles ==
    [][last'.op = "get"
          => IF last'.key \in DOMAIN file_map \/ last'.file.kind # "absent"
             THEN CountIn(access_count_map', last'.key) = Count(last'.key) + 1
             ELSE access_count_map' = access_count_map]_vars

C8_Witness ==
    /\ last.op = "get" /\ last.res = "Passthrough"
    /\ Count(last.key) = 2

\* C9: after every completed operation the Stats Table and the Entry Store
\* have the same keys.
C9_StatsKeysAreEntryKeys ==
    Completed => DOMAIN file_stats_map = DOMAIN file_map

\* C10: after every completed operation every FileStats record holds the
\* key's current access count and the priority derived from it and the size.
C10_PriorityFresh ==
    Completed =>
        \A k \in DOMAIN file_stats_map :
            /\ file_stats_map[k].access_count = Count(k)
            /\ file_stats_map[k].priority
                  = priority_function(Count(k), file_stats_map[k].size)

\* C11 (as stated): with size_limit = 0 every get of an existing file, of any
\* size, zero included, returns a Passthrough handle, the Entry Store stays
\* empty and used_bytes() is always 0.
C11_ZeroLimitNeverCaches ==
    /\ size_limit = 0
    /\ file_map = EmptyMap
    /\ used_bytes = 0
    /\ (last.op = "get" /\ last.file.kind = "file") => last.res = "Passthrough"

\* C11 (amended): with size_limit = 0 a get of an uncached key whose file can
\* be opened and is not empty returns a Passthrough handle and leaves the
\* Entry Store unchanged; while used_bytes() is 0, a get of an empty file that
\* can be opened caches it through the eviction branch with nothing evicted;
\* no get changes used_bytes().
C11_ZeroLimitCachesOnlyEmptyFiles ==
    [][(last'.op = "get" /\ size_limit = 0) =>
          /\ used_bytes' = used_bytes
          /\ (last'.key \notin DOMAIN file_map /\ last'.file.kind = "file") =>
                IF last'.file.size > 0
                THEN last'.res = "Passthrough" /\ file_map' = file_map
                ELSE used_bytes = 0 =>
                       /\ last'.res = "Cached"
                       /\ last'.branch = "evict"
                       /\ last'.removed = <<>>
                       /\ file_map' = Put(file_map, last'.key, 0)]_vars

\* An empty file is cached, and a file that is not empty is then passed
\* through.
C11_Witness ==
    /\ size_limit = 0
    /\ last.op = "get"
    /\ last.res = "Passthrough"
    /\ last.file.size > 0
    /\ file_map # EmptyMap
    /\ used_bytes = 0

\* The cache holds exactly the 5 MB file, accessed once.
HoldsOnly5MAccessedOnce ==
    /\ DOMAIN file_map = {1}
    /\ file_map[1] = MEG5
    /\ Count(1) = 1

\* From that state the n-th counted request of the 1 MB file is passed
\* through while n < admitted_at, and from then on evicts the 5 MB file and
\* is cached.
ReplacedAtRequest(admitted_at) ==
    (last'.op = "get" /\ last'.key = 2 /\ HoldsOnly5MAccessedOnce) =>
        IF Count(2) + 1 < admitted_at
        THEN last'.res = "Passthrough" /\ file_map' = file_map
        ELSE /\ last'.res = "Cached"
             /\ last'.removed = <<1>>
             /\ DOMAIN file_map' = {2}
             /\ file_map'[2] = MEG1

\* C12 (as stated): with the default priority function and a 5.5 MB cache
\* holding one 5 MB file accessed once, a 1 MB file is passed through on its
\* first three requests and the fourth evicts the 5 MB file and is cached.
C12_ReplacedAtFourthRequest == [][ReplacedAtRequest(4)]_vars

\* C12 (amended): the 1 MB file is passed through on its first two requests
\* and the third evicts the 5 MB file and is cached.
C12_ReplacedAtThirdRequest == [][ReplacedAtRequest(3)]_vars

\* The third request of the 1 MB file has replaced the 5 MB file.
C12_Witness ==
    /\ size_limit = ReplaceLimit
    /\ last.op = "get"
    /\ last.key = 2
    /\ last.res = "Cached"
    /\ last.removed = <<1>>
    /\ Count(2) = 3
    /\ Count(1) = 1
    /\ DOMAIN file_map = {2}

\* C13: refresh(key) returns true exactly when the content was replaced; it
\* returns false, and changes nothing, when the key is not cached, when the
\* file is missing or not a regular file, and when its content cannot be read.
C13_RefreshReportsReplacement ==
    [][last'.op = "refresh" =>
          /\ last'.ret <=> last'.branch = "replaced"
          /\ (\/ last'.key \notin DOMAIN file_map
              \/ last'.file.kind # "file") => ~last'.ret
          /\ ~last'.ret => UNCHANGED <<file_map, file_stats_map, access_count_map>>]_vars

\* Every key but k keeps its entry, its stats and its access count.
OthersUnchanged(k) ==
    \A j \in Keys \ {k} :
        /\ (j \in DOMAIN file_map') = (j \in DOMAIN file_map)
        /\ j \in DOMAIN file_map => file_map'[j] = file_map[j]
        /\ (j \in DOMAIN file_stats_map') = (j \in DOMAIN file_stats_map)
        /\ j \in DOMAIN file_stats_map => file_stats_map'[j] = file_stats_map[j]
        /\ (j \in DOMAIN access_count_map') = (j \in DOMAIN access_count_map)
        /\ j \in DOMAIN access_count_map => access_count_map'[j] = access_count_map[j]

\* C14: after a refresh that replaced the content of a cached key whose file
\* changed size, a following get(key) returns a Cached handle with the new
\* size, the key's stats record has the new size and a priority recomputed
\* from it, and the key's access count and every other key's entry, stats and
\* access count are unchanged.
C14_RefreshUpdatesEntry ==
    [][(last'.op = "refresh" /\ last'.branch = "replaced") =>
          /\ file_map'[last'.key] = last'.file.size
          /\ (\A r \in get(last.key) : r.out.res = "Cached" /\ r.out.size = last.file.size)'
          /\ file_stats_map'[last'.key].size = last'.file.size
          /\ file_stats_map'[last'.key].priority =
                priority_function(file_stats_map[last'.key].access_count, last'.file.size)
          /\ CountIn(access_count_map', last'.key) = Count(last'.key)
          /\ OthersUnchanged(last'.key)]_vars

\* A refresh has replaced a cached content by one of another size while
\* another key is cached.
C14_Witness ==
    /\ last.op = "refresh"
    /\ last.branch = "replaced"
    /\ last.size # file_map[last.key]
    /\ file_stats_map[last.key].size = file_map[last.key]
    /\ DOMAIN file_map # {last.key}

RejectedBySizeConstraints ==
    /\ last'.op = "get"
    /\ last'.key \notin DOMAIN file_map
    /\ last'.file.kind \in {"file", "unreadable"}
    /\ (last'.file.size > max_file_size \/ last'.file.size < min_file_size)

\* C16 (as stated): a file whose size is above max_file_size or below
\* min_file_size is never cached: the call returns a Passthrough handle and
\* the Entry Store is unchanged.
C16_ConstraintAlwaysPassthrough ==
    [][RejectedBySizeConstraints =>
          (last'.res = "Passthrough" /\ file_map' = file_map)]_vars

\* C16 (amended): the Entry Store is unchanged, and the call returns a
\* Passthrough handle when the file can be opened and fails with InvalidPath
\* (get returns None) when it cannot.
C16_ConstraintLeavesStore ==
    [][RejectedBySizeConstraints =>
          /\ file_map' = file_map
          /\ IF NamedFile_open_ok(last'.file)
             THEN last'.res = "Passthrough" /\ last'.size = last'.file.size
             ELSE last'.res = "None" /\ last'.err = "InvalidPath"]_vars

\* A file above max_file_size has been passed through by a cache that holds
\* an entry and has room for it.
C16_Witness ==
    /\ last.op = "get"
    /\ last.branch = "size_policy"
    /\ last.res = "Passthrough"
    /\ last.file.size > max_file_size
    /\ file_map # EmptyMap
    /\ used_bytes + last.file.size < size_limit

\* A get of an uncached key whose file has readable metadata and is larger
\* than the whole cache.
LargerThanCache ==
    /\ last'.op = "get"
    /\ last'.key \notin DOMAIN file_map
    /\ last'.file.kind \in {"file", "unreadable"}
    /\ last'.file.size > size_limit

\* C17 (as stated): a file larger than size_limit is never admitted:
\* try_insert returns Ok with a Passthrough handle, and no entry is removed
\* from or added to the Entry Store.
C17_LargerAlwaysPassthrough ==
    [][LargerThanCache =>
          (last'.res = "Passthrough" /\ file_map' = file_map)]_vars

\* C17 (amended): no entry is removed from or added to the Entry Store, and
\* try_insert returns Ok with a Passthrough handle when the file can be opened
\* and fails with InvalidPath when it cannot.
C17_LargerLeavesStore ==
    [][LargerThanCache =>
          /\ file_map' = file_map
          /\ last'.removed = <<>>
          /\ IF NamedFile_open_ok(last'.file)
             THEN last'.res = "Passthrough" /\ last'.size = last'.file.size
             ELSE last'.res = "None" /\ last'.err = "InvalidPath"]_vars

\* A file larger than the cache has been passed through although everything
\* cached has a lower priority.
C17_Witness ==
    /\ last.op = "get"
    /\ last.res = "Passthrough"
    /\ last.file.size > size_limit
    /\ last.mr = "NoMoreFilesToRemove"
    /\ file_map # EmptyMap
    /\ used_bytes = size_limit

\* C18: get(key) for an uncached key whose file is absent, so that its
\* metadata cannot be read, returns None and leaves the whole cache
\* unchanged: nothing is inserted, and no access count or stats record is
\* created or modified.
C18_AbsentFileLeavesCache ==
    [][(last'.op = "get" /\ ~contains_key(last'.key) /\ last'.file.kind = "absent") =>
          /\ last'.res = "None"
          /\ last'.err = "InvalidMetadata"
          /\ last'.key \notin DOMAIN file_map'
          /\ UNCHANGED <<file_map, file_stats_map, access_count_map>>]_vars

\* A key that was counted before is requested when its file is gone, while
\* the cache holds another file.
C18_Witness ==
    /\ last.op = "get"
    /\ last.file.kind = "absent"
    /\ last.res = "None"
    /\ Count(last.key) > 0
    /\ last.key \in DOMAIN file_stats_map
    /\ file_map # EmptyMap

\* C19: as the doc comment of remove says, remove(key) takes the file out of
\* the cache without resetting the key's access count, so that the next
\* get(key) adds it to the cache again.
C19_RemoveKeepsCount ==
    [][last'.op = "remove" =>
          /\ last'.key \notin DOMAIN file_map'
          /\ CountIn(access_count_map', last'.key) = Count(last'.key)]_vars

\* The request handlers that hold the Mutex guard.
Holders == {r \in Requests : req[r].pc = "locked"}

\* C20: under the try_lock discipline of get's documented usage, with two or
\* more concurrent requests: at most one request executes a Cache operation
\* at any time, and the cache changes only in a step of the request holding
\* the lock; a request that fails to take the lock never blocks: it is
\* served by a direct read of the backing store (Some handle exactly when the
\* file can be opened) and changes no cache state.
C20_TryLockDiscipline ==
    /\ [](/\ Cardinality(Holders) <= 1
          /\ \A r \in Requests : req[r].pc = "fallback" => ENABLED Fallback(r))
    /\ [][/\ <<file_map, file_stats_map, access_count_map>>'
               # <<file_map, file_stats_map, access_count_map>>
             => \E r \in Holders : req'[r].pc # "locked" /\ req'[r].via = "cache"
          /\ \A r \in Requests :
               (req[r].pc = "fallback" /\ req'[r] # req[r]) =>
                  /\ UNCHANGED <<file_map, file_stats_map, access_count_map, last, lock>>
                  /\ req'[r].pc = "idle"
                  /\ req'[r].via = "fs"
                  /\ req'[r].res = IF NamedFile_open_ok(req'[r].file)
                                   THEN "Passthrough" ELSE "None"]_vars

\* While one request holds the lock on a cache with an entry, another one has
\* failed to take it and has been served from the backing store.
C20_Witness ==
    \E r, q \in Requests :
        /\ req[r].pc = "locked"
        /\ req[q].pc = "idle"
        /\ req[q].via = "fs"
        /\ req[q].res = "Passthrough"
        /\ req[q].key = req[r].key
        /\ file_map # EmptyMap

\* The space the candidate of the step needs freed.
RequiredSpace == used_bytes + last'.file.size - size_limit

\* The number of victims needed: the shortest tail of the sorted list whose
\* recorded sizes add up to the required space.
VictimsNeeded ==
    CHOOSE n \in 0..Len(last'.order) :
        /\ TailSize(last'.order, file_stats_map, n) >= RequiredSpace
        /\ \A m \in 0..(n - 1) : TailSize(last'.order, file_stats_map, m) < RequiredSpace

\* The candidate of the step is a readable file that fits only by evicting
\* cached entries, and evicting them would make enough room.
FitsOnlyByEvicting ==
    /\ NeedsEviction
    /\ last'.file.kind = "file"
    /\ TailSize(last'.order, file_stats_map, Len(last'.order)) >= RequiredSpace

\* The keys of the last n entries of the sorted list, lowest priority first.
TailKeys(order, n) == [i \in 1..n |-> order[Len(order) - i + 1]]

\* C21: the access counts gathered on passthrough requests count toward
\* admission: the n-th request of a candidate that fits only by evicting is
\* passed through exactly while PriorityFunction(n, size) is below the
\* aggregate recorded priority of the victims needed, and the first request
\* at which it is not below evicts them and returns a Cached handle.
C21_AdmittedOncePriorityReached ==
    [][FitsOnlyByEvicting =>
          IF priority_function(Count(last'.key) + 1, last'.file.size)
                < TailPriority(last'.order, file_stats_map, VictimsNeeded)
          THEN last'.res = "Passthrough" /\ file_map' = file_map
          ELSE /\ last'.res = "Cached"
               /\ last'.removed = TailKeys(last'.order, VictimsNeeded)
               /\ last'.key \in DOMAIN file_map']_vars

\* The Stats Table as the step's call of make_room_for_new_file found it.
StatsTableGiven ==
    update_stats(file_map, file_stats_map, access_count_map', last'.key, last'.file)

RECURSIVE SizeOfFirst(_, _, _)
SizeOfFirst(fm, removed, n) ==
    IF n = 0 THEN 0 ELSE fm[removed[n]] + SizeOfFirst(fm, removed, n - 1)

RECURSIVE PriorityOfFirst(_, _, _)
PriorityOfFirst(fsm, removed, n) ==
    IF n = 0 THEN 0 ELSE fsm[removed[n]].priority + PriorityOfFirst(fsm, removed, n - 1)

\* C22: whenever make_room_for_new_file(required_space, new_priority) returns
\* Ok(removed), the sizes of the removed entries add up to at least
\* required_space, their priorities to at most new_priority, every removed
\* key is absent from file_map and file_stats_map, and dropping the victim
\* selected last would free less than required_space; whenever it returns
\* Err, file_map and file_stats_map are as they were before the call.  (When
\* the content read fails after Ok, the rollback puts the removed entries
\* back into file_map, so their absence from it is seen on admissions.)
C22_CommitPostcondition ==
    [][(last'.op = "get" /\ last'.branch = "evict") =>
          LET removed == last'.removed
              n == Len(removed)
          IN  /\ last'.mr = "Ok" =>
                    /\ SizeOfFirst(file_map, removed, n) >= RequiredSpace
                    /\ PriorityOfFirst(file_stats_map, removed, n) <= CandidatePriority
                    /\ \A i \in 1..n : removed[i] \notin DOMAIN file_stats_map'
                    /\ last'.res = "Cached" =>
                          \A i \in 1..n : removed[i] \notin DOMAIN file_map'
                    /\ n > 0 => SizeOfFirst(file_map, removed, n - 1) < RequiredSpace
              /\ last'.mr \in {"NoMoreFilesToRemove", "NewPriorityIsNotHighEnough"} =>
                    /\ removed = <<>>
                    /\ file_map' = file_map
                    /\ file_stats_map' = StatsTableGiven]_vars

\* An admission for which make_room_for_new_file removed two entries.
C22_Witness ==
    /\ last.op = "get"
    /\ last.branch = "evict"
    /\ last.mr = "Ok"
    /\ last.res = "Cached"
    /\ Len(last.removed) = 2
    /\ \A i \in 1..2 : last.removed[i] \notin DOMAIN file_map \cup DOMAIN file_stats_map

\* C23: when an admission evicts, the evicted entries are exactly the
\* shortest prefix, in ascending recorded priority, of the cached entries
\* whose sizes add up to the required space: no remaining entry has a lower
\* priority than an evicted one, however large it is.
C23_LowestPriorityPrefixEvicted ==
    [][AdmissionEvicted =>
          LET removed == last'.removed
              n == Len(removed)
          IN  /\ \A i, j \in 1..n :
                    i < j => /\ removed[i] # removed[j]
                             /\ RecordedPriority(removed[i]) <= RecordedPriority(removed[j])
              /\ \A i \in 1..n : removed[i] \in DOMAIN file_map
              /\ DOMAIN file_map' =
                    (DOMAIN file_map \ {removed[i] : i \in 1..n}) \cup {last'.key}
              /\ \A r \in Remaining : \A i \in 1..n :
                    RecordedPriority(r) >= RecordedPriority(removed[i])
              /\ SizeOfFirst(file_map, removed, n) >= RequiredSpace
              /\ SizeOfFirst(file_map, removed, n - 1) < RequiredSpace]_vars

\* An admission has evicted one entry and kept a larger one of higher
\* priority.
C23_Witness ==
    /\ last.op = "get"
    /\ last.res = "Cached"
    /\ Len(last.removed) = 1
    /\ used_bytes = size_limit
    /\ \E r \in DOMAIN file_map \ {last.key} :
          file_map[r] > last.size /\ RecordedPriority(r) > 1

\* A get of an uncached key whose file has readable metadata, is within the
\* size constraints and fits beside what is cached.
FitsDirectly ==
    /\ last'.op = "get"
    /\ last'.key \notin DOMAIN file_map
    /\ last'.file.kind \in {"file", "unreadable"}
    /\ last'.file.size >= min_file_size /\ last'.file.size <= max_file_size
    /\ used_bytes + last'.file.size < size_limit

\* The candidate is admitted and every cached key stays cached with the same
\* content.
AdmittedBesideTheOthers ==
    /\ last'.res = "Cached"
    /\ last'.size = last'.file.size
    /\ last'.removed = <<>>
    /\ DOMAIN file_map' = DOMAIN file_map \cup {last'.key}
    /\ file_map'[last'.key] = last'.file.size
    /\ \A k \in DOMAIN file_map : file_map'[k] = file_map[k]

\* C24 (as stated): when an uncached key within the size constraints is
\* requested and used_bytes() + size < size_limit, the item is admitted (a
\* Cached handle, contains_key true) and every previously cached key stays
\* cached with the same content.
C24_DirectFitAlwaysAdmits == [][FitsDirectly => AdmittedBesideTheOthers]_vars

\* C24 (amended): so it is when the content can be read; when it cannot,
\* try_insert fails with InvalidPath (get returns None), nothing is inserted
\* and the Entry Store is unchanged.
C24_DirectFitAdmitsReadable ==
    [][FitsDirectly =>
          /\ last'.branch = "direct_fit"
          /\ IF InMemoryFile_open_ok(last'.file)
             THEN AdmittedBesideTheOthers
             ELSE /\ last'.res = "None"
                  /\ last'.err = "InvalidPath"
                  /\ file_map' = file_map]_vars

\* A file has been admitted beside two cached entries.
C24_Witness ==
    /\ last.op = "get"
    /\ last.branch = "direct_fit"
    /\ last.res = "Cached"
    /\ last.size > 0
    /\ Cardinality(DOMAIN file_map) = 3
    /\ used_bytes < size_limit

\* A get of an uncached key whose file has readable metadata, is within the
\* size constraints and fills the cache exactly.
FitsExactly ==
    /\ last'.op = "get"
    /\ last'.key \notin DOMAIN file_map
    /\ last'.file.kind \in {"file", "unreadable"}
    /\ last'.file.size >= min_file_size /\ last'.file.size <= max_file_size
    /\ used_bytes + last'.file.size = size_limit

\* The admission went through the Eviction Engine, which evicted nothing, and
\* the cache is now exactly full.
AdmittedWithNothingEvicted ==
    /\ last'.mr = "Ok"
    /\ last'.removed = <<>>
    /\ last'.res = "Cached"
    /\ file_map' = Put(file_map, last'.key, last'.file.size)
    /\ used_bytes' = size_limit

\* C25 (as stated): when an uncached key within the size constraints has
\* used_bytes() + size = size_limit, a file of size size_limit into an empty
\* cache included, the admission goes through the Eviction Engine, which
\* evicts nothing and succeeds for any candidate priority, so the item is
\* cached and used_bytes() becomes exactly size_limit.
C25_ExactFitAlwaysCached ==
    [][FitsExactly => (last'.branch = "evict" /\ AdmittedWithNothingEvicted)]_vars

\* C25 (amended): so it is when the content can be read; when it cannot,
\* the Eviction Engine still succeeds with nothing evicted, try_insert fails
\* with InvalidPath (get returns None) and the Entry Store is unchanged.
C25_ExactFitCachesReadable ==
    [][FitsExactly =>
          /\ last'.branch = "evict"
          /\ IF InMemoryFile_open_ok(last'.file)
             THEN AdmittedWithNothingEvicted
             ELSE /\ last'.mr = "Ok"
                  /\ last'.removed = <<>>
                  /\ last'.res = "None"
                  /\ last'.err = "InvalidPath"
                  /\ file_map' = file_map]_vars

\* A file of size size_limit has been cached by an empty cache.
C25_Witness ==
    /\ last.op = "get"
    /\ last.branch = "evict"
    /\ last.res = "Cached"
    /\ last.removed = <<>>
    /\ last.size = size_limit
    /\ size_limit > 0
    /\ DOMAIN file_map = {last.key}
    /\ used_bytes = size_limit

\* C26: after every completed operation every key of the Entry Store has an
\* entry in the access count map; a key may keep a nonzero count with no
\* cached entry, after an eviction or a rejected admission.
C26_CountedKeysCoverEntries ==
    Completed => DOMAIN file_map \subseteq DOMAIN access_count_map

\* A key has been passed through by a cache that holds other entries: it has
\* a count and no entry.
C26_Witness ==
    /\ last.op = "get"
    /\ last.res = "Passthrough"
    /\ last.key \notin DOMAIN file_map
    /\ Count(last.key) > 1
    /\ file_map # EmptyMap
    /\ DOMAIN file_map \subseteq DOMAIN access_count_map

\* The step is a get of an uncached key; with another iteration order of the
\* hash map, sorted_priorities could have returned any of OtherOrders.
GetOfUncached == last'.op = "get" /\ last'.key \notin DOMAIN file_map

OtherOrders == sorted_priorities(file_map, StatsTableGiven)

\* Whatever the order, the get has the same result and leaves the same keys
\* cached.
SameForEveryOrder ==
    \A stats \in OtherOrders :
        LET other == try_insert_with(last'.key, last'.file, stats)
        IN  other.out.res = last'.res /\ DOMAIN other.fm = DOMAIN file_map'

\* No two cached entries have the same recorded priority.
NoTies ==
    \A a, b \in DOMAIN file_map : a # b => RecordedPriority(a) # RecordedPriority(b)

\* C27 (as stated): for the same cache, backing store and operations, the
\* outcome of each get and the resulting set of cached keys are the same for
\* every iteration order of the hash map, also when cached entries have
\* equal priority.
C27_DeterministicUnderTies == [][GetOfUncached => SameForEveryOrder]_vars

\* C27 (amended): they are the same for every iteration order as long as no
\* two cached entries have the same recorded priority.
C27_DeterministicWithoutTies ==
    [][(GetOfUncached /\ NoTies) => SameForEveryOrder]_vars

\* A candidate has been weighed against two cached entries of different
\* priorities.
C27_Witness ==
    /\ last.op = "get"
    /\ last.branch = "evict"
    /\ last.res = "Passthrough"
    /\ Len(last.order) = 2
    /\ DOMAIN file_map = {last.order[1], last.order[2]}
    /\ RecordedPriority(last.order[1]) > RecordedPriority(last.order[2])

\* C28: in every reachable state, rollbacks included, every key that
\* make_room_for_new_file selects for removal is in file_map and in
\* file_stats_map when the commit loop reaches it, so that neither unwrap
\* fails and the commit never stops with only some victims removed.
C28_UnwrapsNeverFail ==
    [][(last'.op = "get" /\ last'.branch = "evict"
           /\ last'.mr \notin {"NoMoreFilesToRemove", "NewPriorityIsNotHighEnough"}) =>
          /\ last'.mr = "Ok"
          /\ \A i \in 1..Len(last'.removed) :
                /\ last'.removed[i] \in DOMAIN file_map
                /\ last'.removed[i] \in DOMAIN file_stats_map]_vars

\* C29: with the default priority function, a readable file with
\* 0 < size <= size_limit and within the size constraints that is requested
\* by get again and again, with no other operation in between, gets a Cached
\* handle after finitely many requests and stays cached from then on.
C29_EventuallyAdmitted ==
    \A k \in Keys :
        (Repeating /\ req[1].key = k) ~> [](k \in DOMAIN file_map)

\* C30: after every completed operation, refresh included, every entry of
\* the store has min_file_size <= size <= max_file_size and
\* size <= size_limit.
C30_EntriesWithinSizePolicy ==
    Completed =>
        \A k \in DOMAIN file_map :
            /\ min_file_size <= file_map[k]
            /\ file_map[k] <= max_file_size
            /\ file_map[k] <= size_limit
====
